---- MODULE Spec2Model ----
(***************************************************************************)
(* Batch file renaming engine of rename.py (rename_files) and gui.py       *)
(* (FileRenamerThread): enumerate, sort, generate names, resolve           *)
(* collisions, apply or preview.                                           *)
(*                                                                         *)
(* File names are sequences of one-character strings.  The directory is a  *)
(* set of entries [name, id, isfile]; id is the name the entry had in the  *)
(* initial state and identifies the file across renames.                   *)
(***************************************************************************)
EXTENDS Integers, Sequences, FiniteSets, TLC

(***************************************************************************)
(* Bounds of the model.                                                    *)
(***************************************************************************)
MaxFiles == 3
MaxRuns == 2
MaxZeroNum == 1
MaxRenameErrors == 1
MaxStemLen == 3
MaxIndex == 2

(***************************************************************************)
(* Characters and Python's str operations.                                 *)
(***************************************************************************)
\* The characters of the model in code point order (Python compares strings
\* by code point).
CodePoints ==
    << " ", ".", "/", "0", "1", "2", "3", "4", "5", "6", "7", "8", "9",
       "A", "B", "F", "T", "_",
       "a", "b", "c", "d", "e", "f", "g", "h", "i", "j", "k", "l", "m",
       "n", "o", "p", "q", "r", "s", "t", "u", "v", "w", "x", "y", "z",
       "²" >>

Ord(c) == CHOOSE i \in 1..Len(CodePoints) : CodePoints[i] = c

DigitChars == <<"0", "1", "2", "3", "4", "5", "6", "7", "8", "9">>

\* A decimal digit: what \d matches in a regular expression and what int()
\* accepts
IsDecimal(c) == \E i \in 1..10 : DigitChars[i] = c

\* str.isdigit() on one character: the decimal digits, and digit characters
\* that are not decimal, as the superscript two
IsDigit(c) == IsDecimal(c) \/ c = "²"

IsSpace(c) == c = " "

DigitVal(c) == (CHOOSE i \in 1..10 : DigitChars[i] = c) - 1

\* str.lower() on one character
LowerChar(c) ==
    CASE c = "A" -> "a"
      [] c = "B" -> "b"
      [] c = "F" -> "f"
      [] c = "T" -> "t"
      [] OTHER -> c

\* str.lower()
Lower(s) == [i \in 1..Len(s) |-> LowerChar(s[i])]

\* str.isdigit(): non-empty and only digits
IsDigitStr(s) == Len(s) > 0 /\ \A i \in 1..Len(s) : IsDigit(s[i])

\* Whether int(s) raises ValueError for a string that passed isdigit()
IntRaises(s) == \E i \in 1..Len(s) : ~IsDecimal(s[i])

\* int(s) for a string of decimal digits
RECURSIVE ToInt(_)
ToInt(s) ==
    IF Len(s) = 0 THEN 0
    ELSE 10 * ToInt(SubSeq(s, 1, Len(s) - 1)) + DigitVal(s[Len(s)])

\* str(n) for n >= 0
RECURSIVE IntToStr(_)
IntToStr(n) ==
    IF n < 10 THEN <<DigitChars[n + 1]>>
    ELSE IntToStr(n \div 10) \o <<DigitChars[(n % 10) + 1]>>

\* str < str
RECURSIVE StrLess(_, _)
StrLess(a, b) ==
    IF Len(b) = 0 THEN FALSE
    ELSE IF Len(a) = 0 THEN TRUE
    ELSE IF a[1] # b[1] THEN Ord(a[1]) < Ord(b[1])
    ELSE StrLess(Tail(a), Tail(b))

\* str.zfill(width) for a string of digits
RECURSIVE ZFill(_, _)
ZFill(s, width) == IF Len(s) >= width THEN s ELSE ZFill(<<"0">> \o s, width)

\* str.rfind('.') as a 1-based position, 0 when there is no dot
RECURSIVE RFindDot(_)
RFindDot(s) ==
    IF Len(s) = 0 THEN 0
    ELSE IF s[Len(s)] = "." THEN Len(s)
    ELSE RFindDot(SubSeq(s, 1, Len(s) - 1))

\* str.rfind('/') as a 1-based position, 0 when there is no separator
RECURSIVE RFindSep(_)
RFindSep(s) ==
    IF Len(s) = 0 THEN 0
    ELSE IF s[Len(s)] = "/" THEN Len(s)
    ELSE RFindSep(SubSeq(s, 1, Len(s) - 1))

\* pathlib's Path(path).name: the last component of the path
PathName(path) == SubSeq(path, RFindSep(path) + 1, Len(path))

\* pathlib's Path(path).suffix: from the last dot of the last component,
\* unless the dot is the first or the last character of the component
PathSuffix(path) ==
    LET name == PathName(path)
        i == RFindDot(name)
    IN IF 1 < i /\ i < Len(name) THEN SubSeq(name, i, Len(name)) ELSE <<>>

\* pathlib's Path(path).stem
PathStem(path) ==
    LET name == PathName(path)
    IN SubSeq(name, 1, Len(name) - Len(PathSuffix(path)))

\* length of the run of decimal digits that ends the string: (\d+)$
RECURSIVE TrailingDigits(_)
TrailingDigits(s) ==
    IF Len(s) = 0 \/ ~IsDecimal(s[Len(s)]) THEN 0
    ELSE 1 + TrailingDigits(SubSeq(s, 1, Len(s) - 1))

\* length of the run of decimal digits (or of other characters) that starts
\* the string: \d+ and \D+
RECURSIVE LeadingRun(_, _)
LeadingRun(s, digits) ==
    IF Len(s) = 0 \/ IsDecimal(s[1]) # digits THEN 0
    ELSE 1 + LeadingRun(Tail(s), digits)

(***************************************************************************)
(* Pure functions of rename.py.                                            *)
(***************************************************************************)
\* re.split(r'(\d+)', s): the runs of s, non-digit and digit runs in turn,
\* starting and ending with a (possibly empty) non-digit run
RECURSIVE ReSplitDigits(_)
ReSplitDigits(s) ==
    LET t == LeadingRun(s, FALSE)
        rest == SubSeq(s, t + 1, Len(s))
        d == LeadingRun(rest, TRUE)
    IN IF Len(rest) = 0 THEN <<SubSeq(s, 1, t)>>
       ELSE <<SubSeq(s, 1, t), SubSeq(rest, 1, d)>>
            \o ReSplitDigits(SubSeq(rest, d + 1, Len(rest)))

\* One element of a natural sort key: int(part) for a digit run, part.lower()
\* otherwise
KeyPart(part) ==
    IF IsDigitStr(part) THEN [isnum |-> TRUE, num |-> ToInt(part), text |-> <<>>]
    ELSE [isnum |-> FALSE, num |-> 0, text |-> Lower(part)]

natural_sort_key(filename) ==
    LET parts == ReSplitDigits(filename)
    IN [i \in 1..Len(parts) |-> KeyPart(parts[i])]

\* Whether natural_sort_key raises: a part passes isdigit() and int(part)
\* raises ValueError
natural_sort_key_raises(filename) ==
    LET parts == ReSplitDigits(filename)
    IN \E i \in 1..Len(parts) : IsDigitStr(parts[i]) /\ IntRaises(parts[i])

\* Python's list < list on two natural sort keys: the first differing element
\* decides, a proper prefix is smaller
RECURSIVE KeyLess(_, _)
KeyLess(a, b) ==
    IF Len(b) = 0 THEN FALSE
    ELSE IF Len(a) = 0 THEN TRUE
    ELSE IF a[1] # b[1] THEN
        IF a[1].isnum THEN a[1].num < b[1].num ELSE StrLess(a[1].text, b[1].text)
    ELSE KeyLess(Tail(a), Tail(b))

extract_number_at_end(filename) ==
    LET k == TrailingDigits(filename)
    IN IF k > 0 /\ Len(filename) > k
       THEN ToInt(SubSeq(filename, Len(filename) - k + 1, Len(filename)))
       ELSE 0

\* re.sub(r'\d+', '', filename)
extract_text_only(filename) == SelectSeq(filename, LAMBDA c : ~IsDecimal(c))

\* Mutant: re.search in place of re.findall, only the first run of digits
extract_numbers_only_FirstRun(filename) ==
    LET t == LeadingRun(filename, FALSE)
        rest == SubSeq(filename, t + 1, Len(filename))
    IN SubSeq(rest, 1, LeadingRun(rest, TRUE))

\* ''.join(re.findall(r'\d+', filename))
extract_numbers_only(filename) == SelectSeq(filename, IsDecimal)

\* re.sub(r'\s+', ' ', text): every run of whitespace becomes one space
RECURSIVE CollapseSpaces(_)
CollapseSpaces(s) ==
    IF Len(s) = 0 THEN <<>>
    ELSE IF IsSpace(s[1]) /\ Len(s) > 1 /\ IsSpace(s[2]) THEN CollapseSpaces(Tail(s))
    ELSE <<IF IsSpace(s[1]) THEN " " ELSE s[1]>> \o CollapseSpaces(Tail(s))

\* str.strip()
RECURSIVE Strip(_)
Strip(s) ==
    IF Len(s) = 0 THEN s
    ELSE IF IsSpace(s[1]) THEN Strip(Tail(s))
    ELSE IF IsSpace(s[Len(s)]) THEN Strip(SubSeq(s, 1, Len(s) - 1))
    ELSE s

\* Mutant: the fallback of an unknown sort type compares the names as they
\* are, without lower()
SortLess_UnknownKeepsCase(a, b, sort_type) ==
    IF sort_type = "number" THEN KeyLess(natural_sort_key(a), natural_sort_key(b))
    ELSE IF sort_type = "name" THEN StrLess(Lower(a), Lower(b))
    ELSE StrLess(a, b)

\* The order sorted() uses under each sort type: a < b on the keys
SortLess(a, b, sort_type) ==
    IF sort_type = "number" THEN KeyLess(natural_sort_key(a), natural_sort_key(b))
    ELSE StrLess(Lower(a), Lower(b))

\* sorted() is stable: an element goes after the elements not greater than it
RECURSIVE InsertSorted(_, _, _)
InsertSorted(sorted, f, sort_type) ==
    IF Len(sorted) = 0 THEN <<f>>
    ELSE IF SortLess(f, sorted[Len(sorted)], sort_type)
         THEN InsertSorted(SubSeq(sorted, 1, Len(sorted) - 1), f, sort_type)
              \o <<sorted[Len(sorted)]>>
         ELSE sorted \o <<f>>

RECURSIVE sort_files(_, _)
sort_files(files, sort_type) ==
    IF Len(files) = 0 THEN <<>>
    ELSE InsertSorted(sort_files(SubSeq(files, 1, Len(files) - 1), sort_type),
                      files[Len(files)], sort_type)

\* Whether sort_files raises: sorted() computes the key of every element
sort_files_raises(files, sort_type) ==
    /\ sort_type = "number"
    /\ \E i \in 1..Len(files) : natural_sort_key_raises(files[i])

\* The candidate stem of generate_new_filename, before zero padding
NewName(stem, index, rename_type) ==
    CASE rename_type = "sequential" -> IntToStr(index)
      [] rename_type = "numbers_only" ->
            LET numbers == extract_numbers_only(stem)
            IN IF Len(numbers) > 0 THEN numbers ELSE IntToStr(index)
      [] rename_type = "text_only" ->
            LET text == Strip(CollapseSpaces(extract_text_only(stem)))
            IN IF Len(text) > 0 THEN text
               ELSE <<"f", "i", "l", "e", "_">> \o IntToStr(index)
      [] rename_type = "numbers_only_at_end" ->
            LET number == extract_number_at_end(stem)
            IN IF number > 0 THEN IntToStr(number) ELSE IntToStr(index)
      [] OTHER -> IntToStr(index)

\* Mutant: the width of the padding is zero_num, not zero_num + 1
ZeroPad_WidthZeroNum(new_name, zero_num) ==
    IF zero_num > 0 /\ IsDigitStr(new_name) THEN ZFill(new_name, zero_num)
    ELSE new_name

\* Zero padding of the candidate stem
ZeroPad(new_name, zero_num) ==
    IF zero_num > 0 /\ IsDigitStr(new_name) THEN ZFill(new_name, zero_num + 1)
    ELSE new_name

\* Mutant: the suffix is appended after the extension
generate_new_filename_SuffixLast(file_name, index, rename_type, prefix, suffix, zero_num) ==
    LET stem == PathStem(file_name)
        extension == PathSuffix(file_name)
    IN prefix \o ZeroPad(NewName(stem, index, rename_type), zero_num)
              \o extension \o suffix

generate_new_filename(file_name, index, rename_type, prefix, suffix, zero_num) ==
    LET stem == PathStem(file_name)
        extension == PathSuffix(file_name)
    IN prefix \o ZeroPad(NewName(stem, index, rename_type), zero_num)
              \o suffix \o extension

(***************************************************************************)
(* Filesystem: the folder given to the run and the entries the run can     *)
(* reach, each under its path relative to the folder: a name without       *)
(* separator is an entry directly in the folder, ../name an entry of the   *)
(* folder's parent directory.                                              *)
(***************************************************************************)
\* Whether a path relative to the folder names an entry directly in it
InFolder(path) == \A i \in 1..Len(path) : path[i] # "/"

\* What iterdir() of the folder yields
FolderEntries(d) == {e \in d : InFolder(e.name)}

Exists(d, name) == \E e \in d : e.name = name

\* Mutant: the target check is missing
TargetConflict_Never(d, file_name, new_filename) == FALSE

\* Mutant: the test that the target is the file itself is missing
TargetConflict_AnyExisting(d, file_name, new_filename) == Exists(d, new_filename)

\* new_path.exists() and new_path.resolve() != file_path.resolve()
TargetConflict(d, file_name, new_filename) ==
    Exists(d, new_filename) /\ new_filename # file_name

\* Whether os.rename(src, dst) raises for a reason the directory itself
\* holds: the source is gone, or the destination is a directory
RenameRaises(d, src, dst) ==
    \/ ~Exists(d, src)
    \/ \E e \in d : e.name = dst /\ ~e.isfile /\ dst # src

\* The directory after a successful os.rename(src, dst): an existing
\* destination file is silently replaced
DoRename(d, src, dst) ==
    IF src = dst THEN d
    ELSE {e \in d : e.name # src /\ e.name # dst}
         \cup {[e EXCEPT !.name = dst] : e \in {x \in d : x.name = src}}

Perms(S) ==
    {f \in [1..Cardinality(S) -> S] :
        \A i, j \in 1..Cardinality(S) : i # j => f[i] # f[j]}

\* get_files_in_folder: the regular files directly in the folder, in the
\* order iterdir() happens to deliver them; an empty list, and no exception,
\* when the folder is missing or is not a directory
\* The exception get_files_in_folder raises: it prints a message and
\* returns the empty list on either precondition failure, so none
get_files_error(kind) == "none"

get_files_in_folder(kind, d) ==
    IF kind # "dir" THEN {<<>>}
    ELSE Perms({e.name : e \in {x \in FolderEntries(d) : x.isfile}})

(***************************************************************************)
(* Collision resolution of the loop body.                                  *)
(***************************************************************************)
\* Mutant: the counter is appended to the whole name, after the extension
WithCounter_AfterExtension(original_new_filename, counter) ==
    original_new_filename \o <<"_">> \o IntToStr(counter)

\* f"{stem}_{counter}{ext}"
WithCounter(original_new_filename, counter) ==
    PathStem(original_new_filename) \o <<"_">> \o IntToStr(counter)
        \o PathSuffix(original_new_filename)

\* Mutant: an if in place of the while, the counter is tried once
NextFreeName_TriesOnce(original_new_filename, used, counter) ==
    WithCounter(original_new_filename, counter)

\* while new_filename in used_names: ... counter += 1
RECURSIVE NextFreeName(_, _, _)
NextFreeName(original_new_filename, used, counter) ==
    LET new_filename == WithCounter(original_new_filename, counter)
    IN IF new_filename \in used
       THEN NextFreeName(original_new_filename, used, counter + 1)
       ELSE new_filename

ResolveDuplicate(original_new_filename, used) ==
    IF original_new_filename \in used
    THEN NextFreeName(original_new_filename, used, 1)
    ELSE original_new_filename

(***************************************************************************)
(* Inputs of the model: the names the initial directory is drawn from and  *)
(* the options of a run.                                                   *)
(***************************************************************************)
FilePool ==
    { <<"2", ".", "t">>,
      <<"f", "i", "l", "e", ".", "t">>,
      <<"f", "i", "l", "e", "1", ".", "t">>,
      <<"1", "f", "i", "l", "e", "2", ".", "t">>,
      <<"b", "_", "0", "7", ".", "t">> }

SubdirPool == { <<"1", ".", "t">> }

\* (sort_type, rename_type) pairs: the documented types, and one pair of
\* unknown ones
Policies ==
    ({"name", "number"}
        \X {"sequential", "numbers_only", "text_only", "numbers_only_at_end"})
    \cup { <<"date", "random">> }

\* (prefix, suffix) pairs
Affixes == { <<(<<>>), (<<>>)>>, <<(<<"p">>), (<<"_", "s">>)>> }

\* who runs the loop: rename_files, or FileRenamerThread with or without a
\* translator
Modes == {"cli", "gui", "gui_no_translator"}

IsGui(m) == m # "cli"

InitialDirs ==
    {  {[name |-> n, id |-> n, isfile |-> TRUE] : n \in fs}
       \cup {[name |-> n, id |-> n, isfile |-> FALSE] : n \in ds} :
       fs \in {x \in SUBSET FilePool : Cardinality(x) <= MaxFiles},
       ds \in SUBSET SubdirPool }

(***************************************************************************)
(* State.                                                                  *)
(***************************************************************************)
VARIABLES
    folder_kind,    \* "missing", "file" or "dir": what folder_path names
    dir,            \* the entries of the folder (and what left it for ../)
    sort_type, rename_type, prefix, suffix, zero_num, mode,
    dry_run,        \* dry_run of the current run
    pc,             \* "idle", "loop", "body", "break", "done", "crashed",
                    \* "caught"
    sorted_files,   \* the names of the files in processing order
    index,          \* index of the last file processed (0 before the first)
    successful, failed, used_names,
    is_running,     \* FileRenamerThread._is_running
    stopped_at,     \* where the run was when stop() was called: index and pc
    progress,       \* values emitted on the progress signal in this run
    finished,       \* dicts emitted on the finished signal in this run
    ret,            \* <<successful, failed>> returned by rename_files
    plan,           \* per processed file: source, candidate, final name, outcome
    start_dir,      \* the directory when the current run started
    history,        \* the completed runs, oldest first
    rename_errors,  \* renames the operating system refused so far
    runs_left,      \* runs the session may still start
    enum_result,    \* what get_files_in_folder did in the current run
    gen_in, gen_out, \* input and result of one generate_new_filename call
    sort_in, sort_out, \* input and result of one sort_files call
    window          \* MainWindow: the rename buttons and its worker threads

opts == <<folder_kind, sort_type, rename_type, prefix, suffix, zero_num, mode>>
loopvars == <<sorted_files, index, successful, failed, used_names, plan>>
genvars == <<gen_in, gen_out, sort_in, sort_out>>
vars == <<opts, dir, dry_run, pc, loopvars, is_running, stopped_at, progress,
          finished, ret,
          start_dir, history, rename_errors, runs_left, enum_result, genvars,
          window>>

\* MainWindow after init_ui (gui.py 810-819) and __init__ (gui.py 378): the
\* start and browse buttons enabled, the stop button disabled, no worker.
\* current: the thread of self.renamer_thread ("none", "running" while
\* isRunning(), "returned" after); old: earlier workers whose thread has not
\* ended; launched: workers started so far; handled: whether
\* renaming_finished has run for the last one; last_call: what the last
\* start_renaming did
WindowAtStart ==
    [start_enabled |-> TRUE, stop_enabled |-> FALSE, browse_enabled |-> TRUE,
     current |-> "none", old |-> 0, launched |-> 0, handled |-> TRUE,
     last_call |-> "none"]

\* Everything but the directory, the options and the number of runs
InitRest ==
    /\ dry_run = FALSE
    /\ pc = "idle"
    /\ sorted_files = <<>>
    /\ index = 0
    /\ successful = 0
    /\ failed = 0
    /\ used_names = {}
    /\ plan = <<>>
    /\ is_running = TRUE
    /\ stopped_at = <<>>
    /\ progress = <<>>
    /\ finished = <<>>
    /\ ret = <<>>
    /\ start_dir = dir
    /\ history = <<>>
    /\ enum_result = <<>>
    /\ gen_out = <<>>
    /\ sort_out = <<>>
    /\ window = WindowAtStart

InitOptions ==
    /\ folder_kind \in {"missing", "file", "dir"}
    /\ dir \in IF folder_kind = "dir" THEN InitialDirs ELSE {{}}
    /\ \E p \in Policies : sort_type = p[1] /\ rename_type = p[2]
    /\ \E a \in Affixes : prefix = a[1] /\ suffix = a[2]
    /\ zero_num \in 0..MaxZeroNum

\* One run, by rename_files or by a FileRenamerThread, on a filesystem that
\* may refuse renames
Init ==
    /\ InitOptions
    /\ mode \in Modes
    /\ rename_errors = 0
    /\ runs_left = 1
    /\ gen_in = <<>>
    /\ sort_in = <<>>
    /\ InitRest

\* Several runs of rename_files in a row with the same options, on a
\* filesystem that refuses no rename
InitRepeat ==
    /\ InitOptions
    /\ mode = "cli"
    /\ rename_errors = MaxRenameErrors
    /\ runs_left = MaxRuns
    /\ gen_in = <<>>
    /\ sort_in = <<>>
    /\ InitRest

\* What a completed run leaves in the history
Completed(dry, s, f, total, cancelled, pl, sd, ed) ==
    [dry |-> dry, successful |-> s, failed |-> f, total |-> total,
     cancelled |-> cancelled, plan |-> pl, start_dir |-> sd, end_dir |-> ed]

\* What a run that found no files hands to its caller: return (0, 0), or
\* the finished signal with zero counts
NoFilesReturn == <<0, 0>>

NoFilesFinished == <<[successful |-> 0, failed |-> 0, total |-> 0]>>

\* What the exception handler of FileRenamerThread.run emits on finished
CriticalErrorFinished == <<[successful |-> 0, failed |-> 0, total |-> 0]>>

(***************************************************************************)
(* rename_files up to its loop (rename.py 239-259) and FileRenamerThread   *)
(* .run up to its loop (gui.py 263-306).                                   *)
(***************************************************************************)
BeginRun ==
    /\ pc \in {"idle", "done"}
    /\ runs_left > 0
    /\ runs_left' = runs_left - 1
    /\ \E dry \in BOOLEAN, files \in get_files_in_folder(folder_kind, dir) :
        /\ dry_run' = dry
        /\ enum_result' = <<[error |-> get_files_error(folder_kind),
                             files |-> {files[k] : k \in 1..Len(files)}]>>
        /\ start_dir' = dir
        /\ is_running' = TRUE
        /\ stopped_at' = <<>>
        /\ progress' = <<>>
        /\ index' = 0
        /\ successful' = 0
        /\ failed' = 0
        /\ used_names' = {}
        /\ plan' = <<>>
        /\ IF mode = "gui_no_translator"
           THEN \* self.translator.get raises AttributeError, in the handler too
                /\ pc' = "crashed"
                /\ finished' = <<>>
                /\ UNCHANGED <<sorted_files, history>>
           ELSE IF Len(files) = 0
           THEN /\ pc' = "done"
                /\ sorted_files' = <<>>
                /\ finished' = IF IsGui(mode) THEN NoFilesFinished ELSE <<>>
                /\ history' = Append(history,
                                    Completed(dry, 0, 0, 0, FALSE, <<>>, dir, dir))
           ELSE IF sort_files_raises(files, sort_type)
           THEN \* ValueError leaves rename_files; the thread's handler
                \* (gui.py 362-368) reports it with zero counts
                /\ pc' = IF IsGui(mode) THEN "caught" ELSE "crashed"
                /\ finished' = IF IsGui(mode) THEN CriticalErrorFinished ELSE <<>>
                /\ UNCHANGED <<sorted_files, history>>
           ELSE /\ pc' = "loop"
                /\ sorted_files' = sort_files(files, sort_type)
                /\ finished' = <<>>
                /\ UNCHANGED history
    /\ ret' = IF pc' = "done" /\ ~IsGui(mode) THEN NoFilesReturn ELSE <<>>
    /\ UNCHANGED <<opts, dir, rename_errors, genvars>>

\* A run started by a caller other than MainWindow
StartRun == BeginRun /\ UNCHANGED window

(***************************************************************************)
(* One iteration of the loop: rename.py 261-298, gui.py 313-353.           *)
(***************************************************************************)
\* The name the loop settles on for the file at position i
FinalName(file_name, i, used) ==
    ResolveDuplicate(
        generate_new_filename(file_name, i, rename_type, prefix, suffix, zero_num),
        used)

\* int(index / len(sorted_files) * 100)
ProgressPercent(i, total) == (i * 100) \div total

\* The ways an iteration can end: "exists" (the target check fails and the
\* loop continues), "preview" (a dry run), "renamed", "error" (rename
\* raised: refused by the operating system, or by the directory's state)
Outcomes == {"exists", "preview", "renamed", "error"}

CanEnd(outcome, conflict, dry, raises, may_refuse) ==
    CASE outcome = "exists" -> conflict
      [] outcome = "preview" -> ~conflict /\ dry
      [] outcome = "renamed" -> ~conflict /\ ~dry /\ ~raises
      [] outcome = "error" -> ~conflict /\ ~dry /\ (raises \/ may_refuse)

\* successful += 1
CountsSuccess(outcome) == outcome \in {"preview", "renamed"}

\* Mutant: the target check reports the conflict without failed += 1
CountsFailure_OnlyExceptions(outcome) == outcome = "error"

\* failed += 1: after the target check, and in the exception handler
CountsFailure(outcome) == outcome \in {"exists", "error"}

\* Mutant: the dry_run test is lost and the preview renames as well
DirAfter_RenamesInDryRun(outcome, d, file_name, new_filename) ==
    IF outcome \in {"renamed", "preview"}
    THEN DoRename(d, file_name, new_filename) ELSE d

\* The directory after the iteration: only file_path.rename changes it
DirAfter(outcome, d, file_name, new_filename) ==
    IF outcome = "renamed" THEN DoRename(d, file_name, new_filename) ELSE d

\* Mutant: the try/except encloses the loop, an exception ends the run
PcAfter_AbortsOnError(outcome) == IF outcome = "error" THEN "done" ELSE "loop"

\* Where the iteration leaves the run: every way it ends goes on with the
\* next file
PcAfter(outcome) == "loop"

\* Whether the progress signal is emitted at the end of the iteration: the
\* continue of the target check skips it
EmitsProgress(outcome) == outcome # "exists"

\* Mutant: the name is claimed after the rename, so only on success
UsedAfter_OnSuccess(used, new_filename, outcome) ==
    IF CountsSuccess(outcome) THEN used \cup {new_filename} ELSE used

\* used_names.add(new_filename): before the target check and the rename,
\* so whatever the outcome
UsedAfter(used, new_filename, outcome) == used \cup {new_filename}

\* Mutant: the target check looks at a listing made when the run started
CheckedDir_AtStart(now, at_start) == at_start

\* new_path.exists() asks the filesystem as it is when the file is processed
CheckedDir(now, at_start) == now

Iterate(outcome) ==
    LET i == index + 1
        file_name == sorted_files[i]
        candidate ==
            generate_new_filename(file_name, i, rename_type, prefix, suffix, zero_num)
        new_filename == FinalName(file_name, i, used_names)
        conflict == TargetConflict(CheckedDir(dir, start_dir), file_name, new_filename)
        raises == RenameRaises(dir, file_name, new_filename)
    IN /\ CanEnd(outcome, conflict, dry_run, raises,
                 rename_errors < MaxRenameErrors)
       /\ index' = i
       /\ used_names' = UsedAfter(used_names, new_filename, outcome)
       /\ plan' = Append(plan, [src |-> file_name, candidate |-> candidate,
                                dst |-> new_filename,
                                dst_exists |-> Exists(dir, new_filename),
                                outcome |-> outcome])
       /\ successful' = IF CountsSuccess(outcome) THEN successful + 1 ELSE successful
       /\ failed' = IF CountsFailure(outcome) THEN failed + 1 ELSE failed
       /\ dir' = DirAfter(outcome, dir, file_name, new_filename)
       /\ rename_errors' = IF outcome = "error" /\ ~raises
                           THEN rename_errors + 1 ELSE rename_errors
       /\ progress' = IF IsGui(mode) /\ EmitsProgress(outcome)
                      THEN Append(progress, ProgressPercent(i, Len(sorted_files)))
                      ELSE progress
       /\ pc' = PcAfter(outcome)
       /\ UNCHANGED <<opts, dry_run, sorted_files, is_running, stopped_at, finished, ret,
                      start_dir, history, runs_left, enum_result, genvars, window>>

\* Mutant: the flag is not tested, the file is processed
PcAfterCheck_IgnoresFlag(running) == "body"

\* if not self._is_running: ... break
PcAfterCheck(running) == IF running THEN "body" ELSE "break"

\* gui.py 309-311: the flag is read at the top of each iteration
CheckRunning ==
    /\ IsGui(mode)
    /\ pc = "loop"
    /\ index < Len(sorted_files)
    /\ pc' = PcAfterCheck(is_running)
    /\ UNCHANGED <<opts, dir, dry_run, loopvars, is_running, stopped_at, progress,
                   finished,
                   ret, start_dir, history, rename_errors, runs_left, enum_result,
                   genvars, window>>

ProcessFile ==
    /\ \/ ~IsGui(mode) /\ pc = "loop" /\ index < Len(sorted_files)
       \/ IsGui(mode) /\ pc = "body"
    /\ \E outcome \in Outcomes : Iterate(outcome)

\* rename.py 300: return (successful, failed); gui.py 355-360: the final
\* statistics, after the loop ended or was left by break
Finish ==
    /\ \/ pc = "loop" /\ index = Len(sorted_files)
       \/ pc = "break"
    /\ pc' = "done"
    /\ ret' = IF IsGui(mode) THEN <<>> ELSE <<successful, failed>>
    /\ finished' = IF IsGui(mode)
                   THEN Append(finished, [successful |-> successful,
                                          failed |-> failed,
                                          total |-> Len(sorted_files)])
                   ELSE finished
    /\ history' = Append(history,
                         Completed(dry_run, successful, failed, Len(sorted_files),
                                   pc = "break", plan, start_dir, dir))
    /\ UNCHANGED <<opts, dir, dry_run, loopvars, is_running, stopped_at, progress, start_dir,
                   rename_errors, runs_left, enum_result, genvars, window>>

(***************************************************************************)
(* rename_files as a function: what its loop (rename.py 255-300) does to a *)
(* directory, given the files in the order sort_files returned them, on a  *)
(* filesystem that refuses no rename.                                      *)
(***************************************************************************)
LoopBody(st, file_name, i, dry) ==
    LET new_filename == FinalName(file_name, i, st.used_names)
        conflict == TargetConflict(st.dir, file_name, new_filename)
        raises == ~dry /\ RenameRaises(st.dir, file_name, new_filename)
        outcome == IF conflict THEN "exists"
                   ELSE IF dry THEN "preview"
                   ELSE IF raises THEN "error"
                   ELSE "renamed"
    IN [dir |-> DirAfter(outcome, st.dir, file_name, new_filename),
        used_names |-> st.used_names \cup {new_filename},
        successful |-> IF CountsSuccess(outcome) THEN st.successful + 1
                       ELSE st.successful,
        failed |-> IF CountsFailure(outcome) THEN st.failed + 1 ELSE st.failed,
        names |-> Append(st.names, new_filename)]

RECURSIVE LoopOver(_, _, _, _)
LoopOver(st, files, i, dry) ==
    IF i > Len(files) THEN st
    ELSE LoopOver(LoopBody(st, files[i], i, dry), files, i + 1, dry)

rename_files(d, files, dry) ==
    LoopOver([dir |-> d, used_names |-> {}, successful |-> 0, failed |-> 0,
              names |-> <<>>],
             files, 1, dry)

\* Mutant: stop() leaves the flag raised
StoppedFlag_StillRaised == TRUE

\* self._is_running = False
StoppedFlag == FALSE

\* FileRenamerThread.stop, called from the GUI thread while the worker runs
Stop ==
    /\ IsGui(mode)
    /\ pc \in {"loop", "body"}
    /\ is_running
    /\ is_running' = StoppedFlag
    /\ stopped_at' = <<[index |-> index, pc |-> pc]>>
    /\ UNCHANGED <<opts, dir, dry_run, pc, loopvars, progress, finished, ret,
                   start_dir, history, rename_errors, runs_left, enum_result, genvars,
                   window>>

Next == StartRun \/ CheckRunning \/ ProcessFile \/ Finish \/ Stop

Spec == Init /\ [][Next]_vars

(***************************************************************************)
(* generate_new_filename on its own, for every short file name.            *)
(***************************************************************************)
GenChars == {"a", "_", " ", "0", "1", "²"}

GenExtensions == { <<>>, <<".", "t">> }

GenStems == UNION {[1..n -> GenChars] : n \in 1..MaxStemLen}

\* No run: the state of a session that only calls a pure function
InitNoRun ==
    /\ folder_kind = "dir"
    /\ dir = {}
    /\ sort_type = "name"
    /\ rename_type = "sequential"
    /\ prefix = <<>>
    /\ suffix = <<>>
    /\ zero_num = 0
    /\ mode = "cli"
    /\ rename_errors = 0
    /\ runs_left = 0
    /\ InitRest

InitGen ==
    /\ InitNoRun
    /\ sort_in = <<>>
    /\ \E stem \in GenStems, ext \in GenExtensions, i \in 1..MaxIndex,
          p \in Policies, a \in Affixes, z \in 0..MaxZeroNum :
            gen_in = <<[file_name |-> stem \o ext, index |-> i,
                        rename_type |-> p[2], prefix |-> a[1], suffix |-> a[2],
                        zero_num |-> z]>>

Generate ==
    /\ gen_out = <<>>
    /\ Len(gen_in) = 1
    /\ LET in == gen_in[1]
       IN gen_out' =
            <<[new_name |-> NewName(PathStem(in.file_name), in.index, in.rename_type),
               final_name |-> generate_new_filename(
                   in.file_name, in.index, in.rename_type,
                   in.prefix, in.suffix, in.zero_num)]>>
    /\ UNCHANGED <<opts, dir, dry_run, pc, loopvars, is_running, stopped_at, progress,
                   finished,
                   ret, start_dir, history, rename_errors, runs_left, enum_result,
                   gen_in, sort_in, sort_out, window>>

NextGen == Generate

SpecGen == InitGen /\ [][NextGen]_vars

(***************************************************************************)
(* sort_files on its own, for every order in which the enumerator may      *)
(* deliver a set of files.                                                 *)
(***************************************************************************)
SortPool ==
    { <<"f", "i", "l", "e", "2", ".", "t">>,
      <<"f", "i", "l", "e", "1", "0", ".", "t">>,
      <<"f", "i", "l", "e", "0", "2", ".", "t">>,
      <<"F", "i", "l", "e", "2", ".", "t">>,
      <<"f", "i", "l", "e">>,
      <<"B", ".", "t">>,
      <<"a", "1", "²", "2", ".", "t">> }

SortTypes == {"name", "number", "date"}

InitSort ==
    /\ InitNoRun
    /\ gen_in = <<>>
    /\ \E S \in {x \in SUBSET SortPool : Cardinality(x) <= MaxFiles} :
         \E files \in Perms(S), st \in SortTypes :
            sort_in = <<[files |-> files, sort_type |-> st]>>

SortFiles ==
    /\ sort_out = <<>>
    /\ Len(sort_in) = 1
    /\ LET in == sort_in[1]
           raises == sort_files_raises(in.files, in.sort_type)
       IN sort_out' =
            <<[raises |-> raises,
               sorted_files |-> IF raises THEN <<>>
                                ELSE sort_files(in.files, in.sort_type)]>>
    /\ UNCHANGED <<opts, dir, dry_run, pc, loopvars, is_running, stopped_at, progress,
                   finished,
                   ret, start_dir, history, rename_errors, runs_left, enum_result,
                   gen_in, gen_out, sort_in, window>>

NextSort == SortFiles

SpecSort == InitSort /\ [][NextSort]_vars

(***************************************************************************)
(* One run under 'number' sort and numbers_only_at_end, without prefix and *)
(* suffix, over files that end in a number, on a filesystem that refuses   *)
(* no rename.                                                              *)
(***************************************************************************)
TrailingPool ==
    { <<"a", "_", "1", ".", "t">>,
      <<"a", "_", "2", ".", "t">>,
      <<"a", "_", "1", "0", ".", "t">>,
      <<"²", "1", "_", "3", ".", "t">> }

InitTrailing ==
    /\ folder_kind = "dir"
    /\ \E fs \in {x \in SUBSET TrailingPool : Cardinality(x) <= MaxFiles} :
          dir = {[name |-> n, id |-> n, isfile |-> TRUE] : n \in fs}
    /\ sort_type = "number"
    /\ rename_type = "numbers_only_at_end"
    /\ prefix = <<>>
    /\ suffix = <<>>
    /\ zero_num \in 0..MaxZeroNum
    /\ mode \in {"cli", "gui"}
    /\ rename_errors = MaxRenameErrors
    /\ runs_left = 1
    /\ gen_in = <<>>
    /\ sort_in = <<>>
    /\ InitRest

SpecTrailing == InitTrailing /\ [][Next]_vars

(***************************************************************************)
(* One run of a FileRenamerThread over files with short names, without     *)
(* prefix, suffix and padding; the worker thread, once started, keeps      *)
(* being scheduled.                                                        *)
(***************************************************************************)
ThreadPool == { <<"a">>, <<"b">>, <<"2">> }

InitThread ==
    /\ folder_kind \in {"missing", "file", "dir"}
    /\ \E fs \in {x \in SUBSET ThreadPool : Cardinality(x) <= MaxFiles} :
          dir = IF folder_kind = "dir"
                THEN {[name |-> n, id |-> n, isfile |-> TRUE] : n \in fs}
                ELSE {}
    /\ \E p \in Policies : sort_type = p[1] /\ rename_type = p[2]
    /\ prefix = <<>>
    /\ suffix = <<>>
    /\ zero_num = 0
    /\ mode \in {"gui", "gui_no_translator"}
    /\ rename_errors = 0
    /\ runs_left = 1
    /\ gen_in = <<>>
    /\ sort_in = <<>>
    /\ InitRest

\* The steps of the worker thread
ThreadStep == CheckRunning \/ ProcessFile \/ Finish

SpecThread == InitThread /\ [][Next]_vars /\ WF_vars(ThreadStep)

(***************************************************************************)
(* Unknown policy tags: sort_files and generate_new_filename on their own, *)
(* and whole runs started with a sort type and a rename type the code does *)
(* not know.                                                               *)
(***************************************************************************)
KnownSortTypes == {"name", "number"}

KnownRenameTypes ==
    {"sequential", "numbers_only", "text_only", "numbers_only_at_end"}

InitUnknownRun ==
    /\ Init
    /\ sort_type \notin KnownSortTypes
    /\ rename_type \notin KnownRenameTypes
    /\ mode \in {"cli", "gui"}

InitFallback == InitGen \/ InitSort \/ InitUnknownRun

NextFallback == Next \/ Generate \/ SortFiles

SpecFallback == InitFallback /\ [][NextFallback]_vars

(***************************************************************************)
(* One run with a prefix that holds a path separator, over a folder of     *)
(* regular files whose parent directory holds nothing but the folder.      *)
(***************************************************************************)
ParentPrefix == <<".", ".", "/">>

InitParentPrefix ==
    /\ folder_kind = "dir"
    /\ \E fs \in {x \in SUBSET FilePool : Cardinality(x) <= MaxFiles} :
          dir = {[name |-> n, id |-> n, isfile |-> TRUE] : n \in fs}
    /\ \E p \in Policies : sort_type = p[1] /\ rename_type = p[2]
    /\ prefix = ParentPrefix
    /\ suffix = <<>>
    /\ zero_num \in 0..MaxZeroNum
    /\ mode \in {"cli", "gui"}
    /\ rename_errors = 0
    /\ runs_left = 1
    /\ gen_in = <<>>
    /\ sort_in = <<>>
    /\ InitRest

SpecParentPrefix == InitParentPrefix /\ [][Next]_vars

(***************************************************************************)
(* Runs of rename_files in a row under 'number' sort and sequential, with  *)
(* the same prefix, suffix and zero_num, on a filesystem that refuses no   *)
(* rename.                                                                 *)
(***************************************************************************)
RepeatPrefixes == { <<>>, <<"p">>, <<"1">>, <<"²">> }

RepeatSuffixes == { <<>>, <<"_", "s">> }

InitSequentialRepeat ==
    /\ folder_kind = "dir"
    /\ \E fs \in {x \in SUBSET FilePool : Cardinality(x) <= MaxFiles} :
          dir = {[name |-> n, id |-> n, isfile |-> TRUE] : n \in fs}
    /\ sort_type = "number"
    /\ rename_type = "sequential"
    /\ prefix \in RepeatPrefixes
    /\ suffix \in RepeatSuffixes
    /\ zero_num \in 0..MaxZeroNum
    /\ mode = "cli"
    /\ rename_errors = MaxRenameErrors
    /\ runs_left = MaxRuns
    /\ gen_in = <<>>
    /\ sort_in = <<>>
    /\ InitRest

(***************************************************************************)
(* MainWindow and its rename worker: start_renaming, stop_renaming and     *)
(* renaming_finished run in the GUI thread, the worker's run() in its own  *)
(* thread; finished reaches renaming_finished through a queued connection, *)
(* while the worker's thread ends on its own after run() has returned.     *)
(***************************************************************************)
\* What the folder field holds when the start button is clicked
FolderInputs == {"empty", "missing", "file", "dir"}

\* gui.py 1081 and 1090: the text is not empty and names a directory
ValidFolder(input) == input = "dir"

\* The worker is inside the loop of run()
InRunNow == pc \in {"loop", "body", "break"}

\* gui.py 1077-1131.  The clicked signal of a disabled button is not emitted.
\* The worker's run up to its loop is taken with the call.
start_renaming ==
    /\ window.start_enabled
    /\ window.launched < MaxRuns
    /\ \E input \in FolderInputs :
          IF ValidFolder(input)
          THEN /\ BeginRun
               /\ window' = [window EXCEPT
                               !.start_enabled = FALSE,
                               !.stop_enabled = TRUE,
                               !.browse_enabled = FALSE,
                               !.old = IF window.current = "running"
                                       THEN @ + 1 ELSE @,
                               !.current = "running",
                               !.launched = @ + 1,
                               !.handled = FALSE,
                               !.last_call = "started"]
          ELSE /\ window' = [window EXCEPT !.last_call = "rejected"]
               /\ UNCHANGED <<opts, dir, dry_run, pc, loopvars, is_running,
                              stopped_at, progress, finished, ret, start_dir,
                              history, rename_errors, runs_left, enum_result,
                              genvars>>

\* gui.py 1133-1138
stop_renaming ==
    /\ window.stop_enabled
    /\ IF window.current = "running"
       THEN /\ is_running' = StoppedFlag
            /\ stopped_at' = <<[index |-> index, pc |-> pc]>>
            /\ window' = [window EXCEPT !.stop_enabled = FALSE]
       ELSE UNCHANGED <<is_running, stopped_at, window>>
    /\ UNCHANGED <<opts, dir, dry_run, pc, loopvars, progress, finished, ret,
                   start_dir, history, rename_errors, runs_left, enum_result,
                   genvars>>

\* gui.py 1152-1157: the slot of the worker's finished signal
renaming_finished ==
    /\ Len(finished) = 1
    /\ ~window.handled
    /\ window' = [window EXCEPT
                    !.start_enabled = TRUE,
                    !.stop_enabled = FALSE,
                    !.browse_enabled = TRUE,
                    !.handled = TRUE]
    /\ UNCHANGED <<opts, dir, dry_run, pc, loopvars, is_running, stopped_at,
                   progress, finished, ret, start_dir, history, rename_errors,
                   runs_left, enum_result, genvars>>

\* The thread of a worker ends: run() has returned after its last statement,
\* finished.emit (gui.py 355-360, 270-274)
ThreadExit ==
    /\ \/ /\ window.current = "running"
          /\ ~InRunNow
          /\ window' = [window EXCEPT !.current = "returned"]
       \/ /\ window.old > 0
          /\ window' = [window EXCEPT !.old = @ - 1]
    /\ UNCHANGED <<opts, dir, dry_run, pc, loopvars, is_running, stopped_at,
                   progress, finished, ret, start_dir, history, rename_errors,
                   runs_left, enum_result, genvars>>

InitWindow ==
    /\ folder_kind = "dir"
    /\ \E fs \in {x \in SUBSET ThreadPool : Cardinality(x) <= MaxFiles} :
          dir = {[name |-> n, id |-> n, isfile |-> TRUE] : n \in fs}
    /\ \E p \in Policies : sort_type = p[1] /\ rename_type = p[2]
    /\ prefix = <<>>
    /\ suffix = <<>>
    /\ zero_num = 0
    /\ mode = "gui"
    /\ rename_errors = MaxRenameErrors
    /\ runs_left = MaxRuns
    /\ gen_in = <<>>
    /\ sort_in = <<>>
    /\ InitRest

NextWindow ==
    \/ start_renaming
    \/ CheckRunning
    \/ ProcessFile
    \/ Finish
    \/ ThreadExit
    \/ stop_renaming
    \/ renaming_finished

SpecWindow == InitWindow /\ [][NextWindow]_vars

NextRepeat == StartRun \/ ProcessFile \/ Finish

SpecSequentialRepeat == InitSequentialRepeat /\ [][NextRepeat]_vars

SpecRepeat == InitRepeat /\ [][NextRepeat]_vars

(***************************************************************************)
(* Claims.                                                                 *)
(***************************************************************************)
LastRun == history[Len(history)]

Cancelled == Len(history) > 0 /\ LastRun.cancelled

\* The result the caller of the run gets: the return value of rename_files,
\* or what FileRenamerThread emitted on finished
Result == IF IsGui(mode) THEN finished ELSE ret

\* C1: a dry run of rename_files returns the same (successful, failed) pair
\* as the real run that is made next on the same, untouched directory with
\* the same options.
C1_DryRunPredictsRealRun ==
    \A k \in 1..Len(history) - 1 :
        (/\ history[k].dry
         /\ ~history[k + 1].dry
         /\ history[k + 1].start_dir = history[k].start_dir)
        => /\ history[k + 1].successful = history[k].successful
           /\ history[k + 1].failed = history[k].failed

\* C2: a run with dry_run=True changes nothing in the directory: at every
\* point of the run and after it the directory holds exactly the entries it
\* held when the run started, whatever the options and the counts.
C2_DryRunChangesNothing ==
    (pc # "idle" /\ dry_run) => dir = start_dir

\* A dry run has ended with successes and with failures.
C2_Witness ==
    /\ pc = "done"
    /\ dry_run
    /\ successful > 0
    /\ failed > 0
    /\ dir = start_dir

\* C3: at every point of the loop the final names resolved so far in the run
\* are pairwise distinct, and they are the names claimed in used_names.
C3_FinalNamesDistinct ==
    /\ \A i, j \in 1..Len(plan) : i # j => plan[i].dst # plan[j].dst
    /\ used_names = {plan[i].dst : i \in 1..Len(plan)}

\* Three files of one run had the same candidate name and were all resolved.
C3_Witness ==
    /\ Len(plan) = 3
    /\ plan[1].candidate = plan[2].candidate
    /\ plan[2].candidate = plan[3].candidate
    /\ Cardinality({plan[i].dst : i \in 1..3}) = 3

\* The names claimed in the run before the file at position j was processed
ClaimedBefore(j) == {plan[i].dst : i \in 1..j - 1}

\* How many earlier files of the run had the same candidate as the file at j
SameCandidateBefore(j) ==
    Cardinality({i \in 1..j - 1 : plan[i].candidate = plan[j].candidate})

\* A candidate's stem, then _n, then the candidate's extension
Disambiguated(candidate, n) ==
    PathStem(candidate) \o <<"_">> \o IntToStr(n) \o PathSuffix(candidate)

Succeeded(j) == plan[j].outcome \in {"preview", "renamed"}

\* An entry whose destination is not on disk is a success, a rename the
\* operating system refuses apart
SucceedsWhenFree(j) ==
    ~plan[j].dst_exists => (Succeeded(j) \/ plan[j].outcome = "error")

Failed(j) == plan[j].outcome \in {"exists", "error"}

\* The files get_files_in_folder found in the current run
Enumerated == IF Len(enum_result) = 0 THEN {} ELSE enum_result[1].files

InRun == pc \in {"loop", "body", "break", "done"}

C6_FailureDoesNotAbort ==
    /\ pc = "crashed" => plan = <<>>
    /\ InRun =>
        /\ failed = Cardinality({j \in 1..Len(plan) : Failed(j)})
        /\ \A j \in 1..Len(plan) :
              /\ plan[j].src = sorted_files[j]
              /\ plan[j].candidate =
                    generate_new_filename(sorted_files[j], j, rename_type,
                                          prefix, suffix, zero_num)
        /\ (pc = "done" /\ ~Cancelled) => Len(plan) = Len(sorted_files)

\* A run ended in which one file failed on an existing target, another
\* because rename raised, and a later file was renamed.
C6_Witness ==
    /\ pc = "done"
    /\ \E i, j, k \in 1..Len(plan) :
          /\ i < k
          /\ j < k
          /\ plan[i].outcome = "exists"
          /\ plan[j].outcome = "error"
          /\ plan[k].outcome = "renamed"

\* C7: when the resolved destination exists and is not the file itself, the
\* entry is a failure, nothing is renamed (the directory, so the source and
\* the existing destination, stays as it was) and the run goes on with the
\* next file.
C7_ExistingTargetFails ==
    [][(/\ index' = index + 1
        /\ \E e \in dir : e.name = plan'[index'].dst
        /\ plan'[index'].dst # sorted_files[index'])
       => /\ plan'[index'].outcome = "exists"
          /\ failed' = failed + 1
          /\ successful' = successful
          /\ dir' = dir
          /\ rename_errors' = rename_errors
          /\ pc' = "loop"]_vars

\* In a real run a file failed on an existing target, both files stayed, and
\* the next file was renamed.
C7_Witness ==
    /\ ~dry_run
    /\ \E j \in 1..Len(plan) - 1 :
          /\ plan[j].outcome = "exists"
          /\ plan[j].dst # plan[j].src
          /\ Exists(dir, plan[j].src)
          /\ plan[j + 1].outcome = "renamed"

\* C8: get_files_in_folder fails with NotFoundError when the path does not
\* exist and with NotADirectoryError when it is not a directory; it returns
\* an empty list without error only for an existing directory with no
\* regular file directly in it.
C8_EnumeratorErrors ==
    Len(enum_result) = 1 =>
        /\ folder_kind = "missing" => enum_result[1].error = "NotFoundError"
        /\ folder_kind = "file" => enum_result[1].error = "NotADirectoryError"
        /\ (enum_result[1].error = "none" /\ enum_result[1].files = {}) =>
              (folder_kind = "dir" /\ \A e \in start_dir : ~e.isfile)

\* C9: the result of a run on a path that is missing or not a directory
\* differs from the result of a run on an existing directory without files.
C9_FatalDistinguished ==
    pc = "done" =>
        /\ (folder_kind = "dir" /\ Enumerated = {}) =>
              Result = IF IsGui(mode) THEN NoFilesFinished ELSE NoFilesReturn
        /\ folder_kind # "dir" =>
              Result # IF IsGui(mode) THEN NoFilesFinished ELSE NoFilesReturn

\* C10: under numbers_only_at_end the candidate stem of a stem that ends in a
\* digit run preceded by a non-digit is that run as a decimal integer without
\* leading zeros, 0 included; of any other stem it is the decimal index.
C10_TrailingNumber ==
    (Len(gen_out) = 1 /\ gen_in[1].rename_type = "numbers_only_at_end") =>
        LET stem == PathStem(gen_in[1].file_name)
            k == TrailingDigits(stem)
        IN gen_out[1].new_name =
            IF k > 0 /\ k < Len(stem)
            THEN IntToStr(ToInt(SubSeq(stem, Len(stem) - k + 1, Len(stem))))
            ELSE IntToStr(gen_in[1].index)

\* The call of generate_new_filename that was made, and its result
GenIn == gen_in[1]

GenOut == gen_out[1]

Generated == Len(gen_out) = 1

\* s consists only of digit characters, as str.isdigit() counts them
OnlyDigitChars(s) == Len(s) > 0 /\ \A i \in 1..Len(s) : IsDigit(s[i])

\* s left-padded with "0" to the width, or s when it is that wide already
LeftPadded(s, width) ==
    IF Len(s) >= width THEN s
    ELSE [i \in 1..width |-> IF i <= width - Len(s) THEN "0"
                             ELSE s[i - (width - Len(s))]]

SortIn == sort_in[1]

SortOut == sort_out[1]

Sorted == Len(sort_out) = 1

Range(s) == {s[i] : i \in 1..Len(s)}

\* A run of decimal digits
IsDigitRun(run) == Len(run) > 0 /\ \A i \in 1..Len(run) : IsDecimal(run[i])

\* Run by run: digit runs by integer value, other runs as case-insensitive
\* text, a proper prefix first
RECURSIVE RunsLess(_, _)
RunsLess(a, b) ==
    IF Len(b) = 0 THEN FALSE
    ELSE IF Len(a) = 0 THEN TRUE
    ELSE IF IsDigitRun(a[1]) /\ IsDigitRun(b[1])
         THEN IF ToInt(a[1]) # ToInt(b[1]) THEN ToInt(a[1]) < ToInt(b[1])
              ELSE RunsLess(Tail(a), Tail(b))
         ELSE IF Lower(a[1]) # Lower(b[1]) THEN StrLess(Lower(a[1]), Lower(b[1]))
              ELSE RunsLess(Tail(a), Tail(b))

NaturalLess(a, b) == RunsLess(ReSplitDigits(a), ReSplitDigits(b))

\* No file of the result comes after a file that is greater under the order
OrderedBy(files, Less(_, _)) ==
    \A i, j \in 1..Len(files) : i < j => ~Less(files[j], files[i])

file2 == <<"f", "i", "l", "e", "2", ".", "t">>

file10 == <<"f", "i", "l", "e", "1", "0", ".", "t">>

\* C12: under the 'number' sort policy sort_files returns the files ordered
\* run by run (digit runs by integer value, other runs as case-insensitive
\* text, a proper prefix first), for every set of names and every input
\* order; file2 comes before file10.
C12_NaturalOrder ==
    (Sorted /\ SortIn.sort_type = "number") =>
        /\ ~SortOut.raises
        /\ Range(SortOut.sorted_files) = Range(SortIn.files)
        /\ Len(SortOut.sorted_files) = Len(SortIn.files)
        /\ OrderedBy(SortOut.sorted_files, NaturalLess)
        /\ \A i, j \in 1..Len(SortOut.sorted_files) :
              (SortOut.sorted_files[i] = file2 /\ SortOut.sorted_files[j] = file10)
              => i < j

\* The order of the policy on two names, and whether their sort keys are equal
PolicyLess(a, b, st) ==
    IF st = "number" THEN NaturalLess(a, b) ELSE StrLess(Lower(a), Lower(b))

SameKey(a, b, st) == ~PolicyLess(a, b, st) /\ ~PolicyLess(b, a, st)

\* One fixed order of delivery of a set of files
SomeDelivery(S) == CHOOSE files \in Perms(S) : TRUE

\* C13: under 'name' and under 'number', what sort_files returns depends only
\* on the set of files, not on the order in which they were delivered, and
\* files with equal sort keys are placed by case-insensitive full name.
C13_OrderIndependent ==
    (Sorted /\ SortIn.sort_type \in {"name", "number"} /\ ~SortOut.raises) =>
        LET result == SortOut.sorted_files
        IN /\ result = sort_files(SomeDelivery(Range(SortIn.files)), SortIn.sort_type)
           /\ \A i, j \in 1..Len(result) :
                 (i < j /\ SameKey(result[i], result[j], SortIn.sort_type))
                 => ~StrLess(Lower(result[j]), Lower(result[i]))

NameLess(a, b) == StrLess(Lower(a), Lower(b))

\* The destination of no processed file was held by another entry when it
\* was needed
NoTargetHeld == \A j \in 1..Len(plan) : ~(plan[j].dst_exists /\ plan[j].dst # plan[j].src)

\* No rename of the run raised
NoRenameRaised == \A j \in 1..Len(plan) : plan[j].outcome # "error"

\* A real run has ended, not by cancellation, without a held target and
\* without a rename that raised
RealRunWentThrough ==
    /\ pc = "done"
    /\ ~dry_run
    /\ ~Cancelled
    /\ NoTargetHeld
    /\ NoRenameRaised

\* The run renamed each file, in the order of sorted_files, to the stem of
\* its position, and reports all successes
SequentialResult(Stem(_)) ==
    /\ OrderedBy(sorted_files, NameLess)
    /\ Range(sorted_files) = Enumerated
    /\ Len(plan) = Len(sorted_files)
    /\ \A i \in 1..Len(plan) :
          LET dst == prefix \o Stem(i) \o suffix \o PathSuffix(sorted_files[i])
          IN /\ plan[i].src = sorted_files[i]
             /\ plan[i].dst = dst
             /\ \E e \in dir : e.name = dst /\ e.id = sorted_files[i] /\ e.isfile
    /\ successful = Len(sorted_files)
    /\ failed = 0

PaddedIndex(i) ==
    IF zero_num > 0 THEN LeftPadded(IntToStr(i), zero_num + 1) ELSE IntToStr(i)

RunOver == pc \in {"done", "crashed", "caught"}

\* The number a stem ends in, when a non-digit precedes it; 0 when there is
\* no such number
TrailingNumber(stem) ==
    LET k == TrailingDigits(stem)
    IN IF k > 0 /\ k < Len(stem)
       THEN ToInt(SubSeq(stem, Len(stem) - k + 1, Len(stem)))
       ELSE 0

\* Every stem ends in a positive number after a non-digit, and the numbers
\* are pairwise distinct
DistinctTrailingNumbers(names) ==
    /\ \A f \in names : TrailingNumber(PathStem(f)) > 0
    /\ \A f, g \in names :
          f # g => TrailingNumber(PathStem(f)) # TrailingNumber(PathStem(g))

\* C15: under 'number' sort with numbers_only_at_end and zero_num = N, a real
\* run over files whose stems end in pairwise distinct positive numbers, each
\* preceded by a non-digit, renames every file to its number zero-padded to
\* N + 1 digits plus the extension, with all files succeeding and none
\* failing.
C15_TrailingRun ==
    (/\ RunOver
     /\ ~dry_run
     /\ ~Cancelled
     /\ sort_type = "number"
     /\ rename_type = "numbers_only_at_end"
     /\ DistinctTrailingNumbers(Enumerated))
    => /\ \A f \in Enumerated :
             \E e \in dir :
                /\ e.id = f
                /\ e.name =
                     LeftPadded(IntToStr(TrailingNumber(PathStem(f))),
                                IF zero_num > 0 THEN zero_num + 1 ELSE 0)
                     \o PathSuffix(f)
       /\ successful = Cardinality(Enumerated)
       /\ failed = 0

\* The decimal digits of s, in their order
RECURSIVE DigitsOf(_)
DigitsOf(s) ==
    IF Len(s) = 0 THEN <<>>
    ELSE (IF IsDecimal(s[1]) THEN <<s[1]>> ELSE <<>>) \o DigitsOf(Tail(s))

\* A stem of digits as zero_num pads it
PaddedDigits(digits) ==
    IF zero_num > 0 THEN LeftPadded(digits, zero_num + 1) ELSE digits

\* C16: under numbers_only the candidate stem of a file is the digits of its
\* stem, concatenated in their order with leading zeros kept (then padded as
\* zero_num says), and the decimal index of the file when the stem has no
\* digit; an entry named by this fallback is a success like any other: it
\* fails only when its destination is held or its rename raises.
C16_NumbersOnly ==
    rename_type = "numbers_only" =>
        \A j \in 1..Len(plan) :
            LET digits == DigitsOf(PathStem(plan[j].src))
                stem == IF Len(digits) > 0 THEN digits ELSE IntToStr(j)
            IN /\ plan[j].candidate =
                    prefix \o PaddedDigits(stem) \o suffix \o PathSuffix(plan[j].src)
               /\ Len(digits) = 0 => SucceedsWhenFree(j)

\* A real run renamed 1file2.t to 12.t and then file.t, which has no digit,
\* to 2.t.
C16_Witness ==
    /\ rename_type = "numbers_only"
    /\ pc = "done"
    /\ Len(plan) = 2
    /\ plan[1].src = <<"1", "f", "i", "l", "e", "2", ".", "t">>
    /\ plan[1].dst = <<"1", "2", ".", "t">>
    /\ plan[2].src = <<"f", "i", "l", "e", ".", "t">>
    /\ plan[2].dst = <<"2", ".", "t">>
    /\ plan[2].outcome = "renamed"
    /\ successful = 2

\* A stem without its decimal digits, runs of whitespace collapsed to one
\* space, leading and trailing whitespace removed
TextOf(stem) ==
    Strip(CollapseSpaces(SelectSeq(stem, LAMBDA c : c \notin Range(DigitChars))))

\* The candidate stem the claim gives under text_only
TextOnlyStem(stem, i) ==
    IF Len(TextOf(stem)) > 0 THEN TextOf(stem)
    ELSE <<"f", "i", "l", "e", "_">> \o IntToStr(i)

\* C17: under text_only the candidate stem is the stem with every digit
\* removed, every run of whitespace replaced by one space and leading and
\* trailing whitespace removed, or file_ + index when that is empty; it is
\* never zero-padded: the result is prefix + candidate stem + suffix +
\* extension for every zero_num.
C17_TextOnly ==
    (Generated /\ GenIn.rename_type = "text_only") =>
        LET stem == TextOnlyStem(PathStem(GenIn.file_name), GenIn.index)
        IN /\ GenOut.new_name = stem
           /\ GenOut.final_name =
                 GenIn.prefix \o stem \o GenIn.suffix \o PathSuffix(GenIn.file_name)

\* index / totalCount as an integer percentage
Percentage(i, total) == (100 * i) \div total

\* C18: in FileRenamerThread.run a progress update of index / totalCount is
\* emitted after every processed file, whatever its outcome, before the next
\* file is started; a run that is not cancelled ends with a last progress
\* value of 100.
C18_ProgressAfterEachFile ==
    (mode = "gui" /\ InRun) =>
        /\ Len(progress) = index
        /\ \A j \in 1..Len(progress) :
              progress[j] = Percentage(j, Len(sorted_files))
        /\ (pc = "done" /\ ~Cancelled /\ Len(sorted_files) > 0) =>
              progress[Len(progress)] = 100

\* The run has observed the cancellation
ObservedCancel == pc = "break" \/ (pc = "done" /\ Cancelled)

\* After the observation: the files not yet processed are in the directory
\* under their own names, are not counted and have claimed no name; the
\* files processed before keep their outcome
CancelledRunState ==
    /\ index < Len(sorted_files)
    /\ successful + failed = index
    /\ Len(plan) = index
    /\ used_names = {plan[i].dst : i \in 1..index}
    /\ \A j \in index + 1..Len(sorted_files) :
          /\ \E e \in dir : e.name = sorted_files[j] /\ e.id = sorted_files[j]
          /\ \A i \in 1..Len(plan) : plan[i].src # sorted_files[j]
    /\ \A i \in 1..index :
          plan[i].outcome = "renamed" =>
             \E e \in dir : e.id = plan[i].src /\ e.name = plan[i].dst
    /\ pc = "done" =>
          finished = <<[successful |-> successful, failed |-> failed,
                        total |-> Len(sorted_files)]>>

\* The next step of the thread is the test of the flag, and stop() was called
ReadsLoweredFlag ==
    IsGui(mode) /\ pc = "loop" /\ index < Len(sorted_files) /\ ~is_running

\* C19: when FileRenamerThread.run reads the flag before a file and stop()
\* was called, it leaves the loop; from then on no entry is processed: the
\* remaining files keep their names, are counted neither as success nor as
\* failure and claim no name, and what was done for the files before stays.
C19_CancelStopsProcessing ==
    /\ [](ObservedCancel => CancelledRunState)
    /\ [][ReadsLoweredFlag => pc' = "break"]_vars
    /\ [][ObservedCancel => (UNCHANGED <<dir, loopvars>> /\ pc' = "done")]_vars

\* A run of three files was cancelled after its first file was renamed; the
\* two others kept their names.
C19_Witness ==
    /\ pc = "done"
    /\ Cancelled
    /\ ~dry_run
    /\ Len(sorted_files) = 3
    /\ index = 1
    /\ plan[1].outcome = "renamed"
    /\ plan[1].dst # plan[1].src
    /\ Exists(dir, sorted_files[2])
    /\ Exists(dir, sorted_files[3])

\* The run of the thread has started
ThreadStarted == IsGui(mode) /\ pc # "idle"

\* C20: every started run of FileRenamerThread eventually emits finished,
\* and emits it once, whether it completes, is cancelled or finds no files;
\* the emitted total is the number of files enumerated and the emitted
\* successful and failed are the counts accumulated in the run.
C20_FinishedOnce ==
    /\ [](IsGui(mode) => Len(finished) <= 1)
    /\ ThreadStarted ~> (Len(finished) = 1)
    /\ []((IsGui(mode) /\ Len(finished) = 1) =>
            /\ finished[1].total = Cardinality(Enumerated)
            /\ finished[1].successful = successful
            /\ finished[1].failed = failed)

\* The thread was constructed without a translator and its run has started
DefaultTranslatorStarted == mode = "gui_no_translator" /\ pc # "idle"

\* C21: a FileRenamerThread constructed without a translator and started on
\* a directory of files does not end without emitting finished: it emits
\* finished, with the counts of the run, and these are all files successful
\* and none failed when no destination is held by another entry.
C21_DefaultTranslatorFinishes ==
    /\ []((DefaultTranslatorStarted /\ RunOver /\ Enumerated # {}) =>
            /\ Len(finished) = 1
            /\ finished[1].successful = successful
            /\ finished[1].failed = failed
            /\ (~Cancelled /\ NoTargetHeld /\ NoRenameRaised) =>
                  /\ finished[1].successful = Cardinality(Enumerated)
                  /\ finished[1].failed = 0)
    /\ (DefaultTranslatorStarted /\ Enumerated # {}) ~> (Len(finished) = 1)

\* stop() was called in the current run
StopCalled == IsGui(mode) /\ Len(stopped_at) = 1

\* The files processed when stop() was called, and whether the flag had
\* already been read for the next one (that file was in flight)
IndexAtStop == stopped_at[1].index

InFlightAtStop == stopped_at[1].pc = "body"

\* C22: the flag is read once per file, before the file is processed, and
\* not during it: after a call of stop() at most one more file is renamed or
\* counted, and only the file that was in flight at the call; when stop() is
\* called before the flag was read for the first file, no file is processed.
C22_AtMostOneAfterStop ==
    StopCalled =>
        LET after == index - IndexAtStop
        IN /\ after \in {0, 1}
           /\ after = 1 => InFlightAtStop
           /\ Len(plan) = index
           /\ successful + failed = index
           /\ Cardinality({e \in dir : e.name # e.id}) <= IndexAtStop + after
           /\ (IndexAtStop = 0 /\ ~InFlightAtStop) =>
                 /\ plan = <<>>
                 /\ successful = 0
                 /\ failed = 0
                 /\ dir = start_dir

\* stop() was called while the first of three files was in flight; that file
\* was renamed and the run ended with the two others untouched.
C22_Witness ==
    /\ StopCalled
    /\ pc = "done"
    /\ ~dry_run
    /\ Len(sorted_files) = 3
    /\ IndexAtStop = 0
    /\ InFlightAtStop
    /\ index = 1
    /\ plan[1].outcome = "renamed"
    /\ successful = 1

\* C23: the final name of every processed file is claimed whatever the
\* outcome of the file, so a file that ends as a failure still holds its
\* name: a later file of the run whose candidate is that name gets the
\* candidate's stem, _N and the extension, never the name of the failed entry.
C23_FailedEntryHoldsName ==
    /\ \A i \in 1..Len(plan) : plan[i].dst \in used_names
    /\ \A i, j \in 1..Len(plan) :
          (i < j /\ Failed(i) /\ plan[j].candidate = plan[i].dst) =>
              /\ plan[j].dst # plan[i].dst
              /\ \E n \in 1..j : plan[j].dst = Disambiguated(plan[j].candidate, n)

\* A file failed on an existing target, and the next file with the same
\* candidate was renamed to stem_1.
C23_Witness ==
    \E i, j \in 1..Len(plan) :
        /\ i < j
        /\ plan[i].outcome = "exists"
        /\ plan[j].candidate = plan[i].dst
        /\ plan[j].dst = Disambiguated(plan[j].candidate, 1)
        /\ plan[j].outcome = "renamed"

\* The final name of the entry at j is the name the file has
KeepsOwnName(j) == plan[j].dst = plan[j].src

KeepsTies(files, result, Less(_, _)) ==
    \A i, j \in 1..Len(files) :
        (i < j /\ ~Less(files[i], files[j]) /\ ~Less(files[j], files[i])) =>
            \E k, l \in 1..Len(result) :
                k < l /\ result[k] = files[i] /\ result[l] = files[j]

\* sort_files was called with a sort type it does not know: it returned,
\* and what it returned is what it returns for 'name'
UnknownSortIsName ==
    (Sorted /\ SortIn.sort_type \notin KnownSortTypes) =>
        /\ ~SortOut.raises
        /\ SortOut.sorted_files = sort_files(SortIn.files, "name")
        /\ Len(SortOut.sorted_files) = Len(SortIn.files)
        /\ Range(SortOut.sorted_files) = Range(SortIn.files)
        /\ OrderedBy(SortOut.sorted_files, NameLess)
        /\ KeepsTies(SortIn.files, SortOut.sorted_files, NameLess)

\* generate_new_filename was called with a rename type it does not know:
\* the result is the one of sequential
UnknownRenameIsSequential ==
    (Generated /\ GenIn.rename_type \notin KnownRenameTypes) =>
        LET stem == IF GenIn.zero_num > 0
                    THEN LeftPadded(IntToStr(GenIn.index), GenIn.zero_num + 1)
                    ELSE IntToStr(GenIn.index)
        IN /\ GenOut.final_name =
                 GenIn.prefix \o stem \o GenIn.suffix \o PathSuffix(GenIn.file_name)
           /\ GenOut.final_name =
                 generate_new_filename(GenIn.file_name, GenIn.index, "sequential",
                                       GenIn.prefix, GenIn.suffix, GenIn.zero_num)

\* A run with unknown tags is not ended by an exception, processes the files
\* in the order of 'name' with the candidates of sequential, and counts an
\* entry as a failure only when its target is held or its rename raised
UnknownTagsRun ==
    (sort_type \notin KnownSortTypes /\ rename_type \notin KnownRenameTypes) =>
        /\ pc \notin {"crashed", "caught"}
        /\ InRun =>
              /\ OrderedBy(sorted_files, NameLess)
              /\ Range(sorted_files) = Enumerated
              /\ \A j \in 1..Len(plan) :
                    /\ plan[j].candidate =
                          prefix \o PaddedIndex(j) \o suffix \o PathSuffix(plan[j].src)
                    /\ Failed(j) =>
                          \/ plan[j].dst_exists /\ plan[j].dst # plan[j].src
                          \/ plan[j].outcome = "error"

\* C25: an unknown sort type makes sort_files order the files exactly as
\* 'name' does, and an unknown rename type makes generate_new_filename give
\* exactly the sequential result; neither raises, and neither makes an entry
\* of a run a failure.
C25_UnknownTagsFallBack ==
    /\ UnknownSortIsName
    /\ UnknownRenameIsSequential
    /\ UnknownTagsRun

\* Under the unknown sort type 'date', file2.t and file10.t, delivered in
\* this order, came back as file10.t, file2.t: the order of 'name'.
C25_Witness ==
    /\ Sorted
    /\ SortIn.sort_type = "date"
    /\ SortIn.files = <<file2, file10>>
    /\ SortOut.sorted_files = <<file10, file2>>

\* The regular files directly in the folder
FolderFiles(d) == {e \in FolderEntries(d) : e.isfile}

\* The final names the current run has assigned to the file named src
AssignedNames(src) == {plan[j].dst : j \in {i \in 1..Len(plan) : plan[i].src = src}}

\* C26: a real run over a directory of regular files overwrites and loses no
\* file: at every point of the run and after it, whatever the policies, the
\* options, the failures and the point of cancellation, the directory holds
\* as many files as at the start, and each file it held at the start is in it
\* under exactly one name, its original name or the final name assigned to it.
C26_NoFileLost ==
    (pc # "idle" /\ ~dry_run /\ \A e \in start_dir : e.isfile) =>
        /\ Cardinality(FolderFiles(dir)) = Cardinality(FolderFiles(start_dir))
        /\ \A e \in FolderFiles(start_dir) :
              /\ Cardinality({f \in FolderFiles(dir) : f.id = e.id}) = 1
              /\ \A f \in FolderFiles(dir) :
                    f.id = e.id => f.name \in {e.name} \cup AssignedNames(e.name)
        /\ \A f, g \in FolderFiles(dir) : f.name = g.name => f = g

\* The positions at which the file that held the name when the run started
\* comes in the processing order
HolderPositions(name) ==
    IF \E e \in start_dir : e.name = name /\ e.isfile
    THEN {k \in 1..Len(sorted_files) : sorted_files[k] = name}
    ELSE {}

\* The entry at i was renamed away from its name
RenamedAway(i) == plan[i].outcome = "renamed" /\ plan[i].dst # plan[i].src

\* C27: in a real run the target check sees the directory as the earlier
\* renames of the run have left it: a destination held at the start by a
\* file that was processed earlier and renamed away is accepted (the entry
\* is a success, unless the operating system refuses its rename); a
\* destination held by a file that comes later in the order, or by an
\* earlier file whose own rename failed, is rejected (the entry is a failure
\* of the target check).
C27_CheckSeesEarlierRenames ==
    (InRun /\ ~dry_run) =>
        \A j \in 1..Len(plan) :
            \A k \in HolderPositions(plan[j].dst) :
                /\ (k < j /\ RenamedAway(k)) =>
                      /\ plan[j].outcome \in {"renamed", "error"}
                      /\ ~plan[j].dst_exists
                /\ (k > j \/ (k < j /\ Failed(k))) =>
                      /\ plan[j].outcome = "exists"
                      /\ plan[j].dst_exists

\* 2.t was renamed to 1.t, and then file.t was renamed to 2.t, the name the
\* first file held when the run started.
C27_Witness ==
    /\ pc = "done"
    /\ ~dry_run
    /\ Len(plan) = 2
    /\ RenamedAway(1)
    /\ plan[2].dst = plan[1].src
    /\ plan[2].outcome = "renamed"
    /\ \E e \in dir : e.name = plan[2].dst /\ e.id = plan[2].src

\* What a run hands to its caller and leaves behind: whether an exception
\* left it, the counts it reported, the final names in processing order and
\* the directory
Outcome(raised, counts, names, d) ==
    [raised |-> raised, counts |-> counts, names |-> names, dir |-> d]

\* The outcome of rename_files on the directory and options of the current
\* run
RenameFilesOutcome ==
    IF Enumerated = {} THEN Outcome(FALSE, <<0, 0>>, <<>>, start_dir)
    ELSE IF sort_files_raises(SomeDelivery(Enumerated), sort_type)
    THEN Outcome(TRUE, <<>>, <<>>, start_dir)
    ELSE LET r == rename_files(start_dir, sorted_files, dry_run)
         IN Outcome(FALSE, <<r.successful, r.failed>>, r.names, r.dir)

\* The outcome of the run of the current state
RunOutcome ==
    Outcome(pc = "crashed",
            IF ~IsGui(mode) THEN ret
            ELSE IF Len(finished) = 1
                 THEN <<finished[1].successful, finished[1].failed>>
                 ELSE <<>>,
            [j \in 1..Len(plan) |-> plan[j].dst],
            dir)

\* C28: for the same directory and options, and when stop() is not called,
\* FileRenamerThread.run and rename_files are equivalent: the run of either
\* assigns the final names, leaves the directory and reports the successful
\* and failed counts that rename_files gives for these inputs.
C28_ThreadEqualsRenameFiles ==
    (/\ RunOver
     /\ mode \in {"cli", "gui"}
     /\ Len(stopped_at) = 0
     /\ NoRenameRaised)
    => RunOutcome = RenameFilesOutcome

\* A completed real run that renamed every one of its files
FullySucceeded(run) ==
    /\ ~run.dry
    /\ ~run.cancelled
    /\ run.total > 0
    /\ run.successful = run.total
    /\ run.failed = 0

\* A completed run that gave every file the name it had and changed nothing
ChangedNothing(run) ==
    /\ \A j \in 1..Len(run.plan) : run.plan[j].dst = run.plan[j].src
    /\ run.end_dir = run.start_dir

\* C30: under 'number' sort and sequential, a real run made right after a
\* real run that renamed all n files, with the same options, is not ended
\* by an exception, gives every file its current name again, leaves the
\* directory as it is and reports n successes and 0 failures.
C30_RepeatIsIdempotent ==
    (sort_type = "number" /\ rename_type = "sequential") =>
        /\ (/\ pc = "crashed"
            /\ ~dry_run
            /\ Len(history) > 0)
           => ~FullySucceeded(LastRun)
        /\ \A k \in 1..Len(history) - 1 :
              (FullySucceeded(history[k]) /\ ~history[k + 1].dry) =>
                  /\ history[k + 1].start_dir = history[k].end_dir
                  /\ ChangedNothing(history[k + 1])
                  /\ history[k + 1].total = history[k].total
                  /\ history[k + 1].successful = history[k].total
                  /\ history[k + 1].failed = 0

\* The FileRenamerThread objects whose thread is running
RunningWorkers == window.old + (IF window.current = "running" THEN 1 ELSE 0)

\* A worker was launched and renaming_finished has not yet handled its
\* finished signal
InService == window.launched > 0 /\ ~window.handled

\* C29: in the GUI at most one FileRenamerThread is running at any time;
\* from the launch of a worker by start_renaming until renaming_finished has
\* handled its finished signal the start button is disabled, so no second
\* worker is started; a start_renaming call rejected by the validation of
\* the folder starts no worker and changes no button.
C29_OneWorkerAtATime ==
    /\ RunningWorkers <= 1
    /\ InService => ~window.start_enabled
    /\ InRunNow => (InService /\ window.current = "running")
    /\ window.last_call = "rejected" =>
          /\ window.start_enabled
          /\ ~window.stop_enabled
          /\ window.browse_enabled
          /\ ~InService

====
